---- MODULE Spec2Model ----
(***************************************************************************)
(* The OpenCode proxy gateway (services/proxy): a Hono application that    *)
(* routes inbound HTTP requests, resolves callers against better-auth (the *)
(* Identity Store) and forwards traffic to the OpenCode backend.           *)
(*                                                                         *)
(* The repository holds four builds of the entry point index.ts; the       *)
(* variable build says which one is deployed:                              *)
(*   "fetch"   services/proxy/src/index.ts   fetch() on /api/opencode/*    *)
(*   "param"   unnamed/part_003              proxy() on /api/opencode/:path*)
(*   "apikey"  unnamed/part_004              proxy() on /opencode/:apiKey/**)
(*   "modular" unnamed/part_005              routes/ + middleware/         *)
(*                                                                         *)
(* A path "/a/b" is the sequence <<"a","b">> of its segments, "/a/" is     *)
(* <<"a","">> and "/" is <<"">>, so that path.split('/') is <<"">> \o path.*)
(***************************************************************************)
EXTENDS Naturals, Sequences, FiniteSets, TLC

VARIABLES
  build,    \* which index.ts is deployed
  keys,     \* Identity Store: key id -> owning user, NoUser (not issued) or Revoked
  req,      \* per request slot: position in the pipeline, inbound request, context, response
  hook      \* the account-creation hook: the configuration it reads, the user, its decision

vars == <<build, keys, req, hook>>

(* ------------------------------ bounds -------------------------------- *)

\* longest remainder (in segments) after the routed prefix
MaxRest == 2

\* most entries of the comma-separated ALLOWED_DOMAINS
MaxEntries == 2

(* --------------------------- value universes --------------------------- *)

Builds == {"fetch", "param", "apikey", "modular"}
Slots == {"r1"}
Methods == {"GET", "POST", "DELETE"}
Users == {"alice", "bob"}
NoUser == "none"
Revoked == "revoked"
KeyIds == {"id1", "id2"}
Absent == "<absent>"

\* the secret of each credential the Identity Store may hold
Secret(id) == IF id = "id1" THEN "oc_k1" ELSE "k2"

\* the session a cookie value stands for
SessionOf(cookie) ==
  CASE cookie = "s_alice" -> "alice"
    [] cookie = "s_bob" -> "bob"
    [] OTHER -> NoUser

\* strings presented in the credential segment of /opencode/<credential>/...
Creds == {"oc_k1", "oc_zz", "k2", ""}

RestAlphabet == {"app", ""}
RECURSIVE SeqsUpTo(_, _)
SeqsUpTo(S, n) ==
  IF n = 0 THEN {<< >>}
  ELSE LET shorter == SeqsUpTo(S, n - 1)
       IN shorter \cup {Append(q, x) : q \in {p \in shorter : Len(p) = n - 1}, x \in S}
Rests == SeqsUpTo(RestAlphabet, MaxRest)

Paths ==
  {<<"">>, <<"health">>, <<"nope">>, <<"opencode">>, <<"p8n", "auth", "session">>}
    \cup {<<"p8n", "api-keys", x>> : x \in {"create", "list", "id1", "id2"}}
    \cup {<<"opencode", c>> \o r : c \in Creds, r \in Rests}
    \cup {<<"api", "opencode">> \o r : r \in Rests}

Queries == {"", "?a=1"}

HeaderNames ==
  {"authorization", "cookie", "x-forwarded-for", "x-forwarded-host", "host", "x-api-key"}
GatewayHost == "gw:3000"

Hdrs(a, ck, x) ==
  [h \in HeaderNames |->
     CASE h = "host" -> GatewayHost
       [] h = "authorization" -> a
       [] h = "cookie" -> ck
       [] h = "x-forwarded-for" -> x
       [] OTHER -> Absent]

\* header sets a caller sends
InboundHeaders ==
  {Hdrs(Absent, Absent, Absent), Hdrs("Bearer t", Absent, Absent),
   Hdrs(Absent, "s_alice", Absent), Hdrs(Absent, "s_bob", "6.6.6.6"),
   Hdrs("Bearer t", "s_alice", "6.6.6.6")}

BodyOf(method) == IF method = "POST" THEN "data" ELSE Absent

Inbound ==
  {[method |-> m, path |-> p, query |-> q, headers |-> h, body |-> BodyOf(m)] :
    m \in Methods, p \in Paths, q \in Queries, h \in InboundHeaders}

NoHeaders == [h \in HeaderNames |-> Absent]
NoReq == [method |-> Absent, path |-> << >>, query |-> "", headers |-> NoHeaders, body |-> Absent]

(* ------------------------------ strings -------------------------------- *)

\* Array.prototype.join
RECURSIVE Join(_, _)
Join(segs, sep) ==
  IF segs = << >> THEN ""
  ELSE IF Len(segs) = 1 THEN segs[1]
  ELSE segs[1] \o sep \o Join(Tail(segs), sep)

\* String.prototype.split('/') of the path string "/" + Join(path, "/")
SplitPath(path) == <<"">> \o path

\* Array.prototype.slice(n): the elements from index n (0-based) on
Slice(arr, n) == SubSeq(arr, n + 1, Len(arr))

\* String.prototype.startsWith
StartsWith(s, p) == Len(s) >= Len(p) /\ SubSeq(s, 1, Len(p)) = p

\* String.prototype.includes
Includes(s, p) == \E i \in 1..Len(s) : i + Len(p) - 1 <= Len(s) /\ SubSeq(s, i, i + Len(p) - 1) = p

\* URL.pathname of the inbound request
PathName(path) == "/" \o Join(path, "/")

IsPrefix(p, q) == Len(p) <= Len(q) /\ SubSeq(q, 1, Len(p)) = p

(* ------------------------------ responses ------------------------------ *)

RespHeaderNames == {"set-cookie", "x-backend"}
NoRespHeaders == [h \in RespHeaderNames |-> Absent]

\* what the backend may answer
BackendAnswers ==
  {[status |-> sb[1], body |-> sb[2],
    headers |-> [h \in RespHeaderNames |-> IF h = "set-cookie" THEN ck ELSE "v"]] :
    sb \in {<<200, "pong">>, <<404, "no such page">>, <<500, "backend error">>},
    ck \in {Absent, "sid=1"}}

\* values a failing call may throw
StoreThrown ==
  {[isError |-> TRUE, message |-> "Database connection lost"],
   [isError |-> TRUE, message |-> "Invalid API key lookup"],
   [isError |-> TRUE, message |-> "socket hang up"]}
BackendThrown ==
  {[isError |-> TRUE, message |-> "Unable to connect"],
   [isError |-> TRUE, message |-> "ECONNRESET"]}

NoResp == [status |-> 0, kind |-> Absent, error |-> Absent, message |-> Absent,
           details |-> Absent, body |-> Absent, data |-> {}, headers |-> NoRespHeaders]

\* c.json({error, message?, details?}, status)
JsonError(status, error, message, details) ==
  [status |-> status, kind |-> "json", error |-> error, message |-> message,
   details |-> details, body |-> Absent, data |-> {}, headers |-> NoRespHeaders]

\* c.json(value) with a value that is no error envelope: a tag and its payload
JsonOk(body, data) ==
  [status |-> 200, kind |-> "json", error |-> Absent, message |-> Absent,
   details |-> Absent, body |-> body, data |-> data, headers |-> NoRespHeaders]

\* c.text(text, status)
Text(status, text) ==
  [status |-> status, kind |-> "text", error |-> Absent, message |-> Absent,
   details |-> Absent, body |-> text, data |-> {}, headers |-> NoRespHeaders]

\* new Response(body, {status, headers})
Relayed(status, body, headers) ==
  [status |-> status, kind |-> "relay", error |-> Absent, message |-> Absent,
   details |-> Absent, body |-> body, data |-> {}, headers |-> headers]

(* ------------------------------- routing ------------------------------- *)

\* a router whose ':apiKey' also matches an empty segment
Route_EmptyParam(b, method, path) ==
  IF b \in {"apikey", "modular"} /\ Len(path) >= 2 /\ path[1] = "opencode"
    THEN IF b = "apikey" THEN "apikeyProxy" ELSE "proxy"
    ELSE "none"

\* a router that puts /health behind the session middleware of /p8n/api-keys
Route_HealthGated(b, method, path) ==
  IF path = <<"health">> THEN "keysNone" ELSE "none"

\* the routes the deployed build registers; "none" is Hono's not-found path
Route(b, method, path) ==
  CASE b = "fetch" ->
         IF method = "GET" /\ path = <<"health">> THEN "health"
         ELSE IF IsPrefix(<<"api", "opencode">>, path) THEN "fetchProxy"
         ELSE IF method = "GET" /\ path = <<"">> THEN "root"
         ELSE "none"
    [] b = "param" ->
         IF method = "GET" /\ path = <<"health">> THEN "health"
         ELSE IF Len(path) = 3 /\ IsPrefix(<<"api", "opencode">>, path) /\ path[3] # ""
           THEN "paramProxy"
         ELSE IF method = "GET" /\ path = <<"">> THEN "root"
         ELSE "none"
    [] b = "apikey" ->
         IF IsPrefix(<<"p8n">>, path) THEN "p8n"
         ELSE IF Len(path) >= 2 /\ path[1] = "opencode" /\ path[2] # "" THEN "apikeyProxy"
         ELSE "none"
    [] OTHER ->
         IF method = "GET" /\ path = <<"health">> THEN "health"
         ELSE IF IsPrefix(<<"p8n", "auth">>, path)
           THEN IF method \in {"POST", "GET"} THEN "auth" ELSE "none"
         ELSE IF IsPrefix(<<"p8n", "api-keys">>, path)
           THEN IF method = "POST" /\ path = <<"p8n", "api-keys", "create">> THEN "create"
                ELSE IF method = "GET" /\ path = <<"p8n", "api-keys", "list">> THEN "list"
                ELSE IF method = "DELETE" /\ Len(path) = 3 /\ path[3] # "" THEN "delete"
                ELSE "keysNone"
         ELSE IF Len(path) >= 2 /\ path[1] = "opencode" /\ path[2] # "" THEN "proxy"
         ELSE "none"

(* ----------------------------- configuration --------------------------- *)

\* OPENCODE_HOST / OPENCODE_PORT defaults
OpencodeHost == "opencode"
OpencodePort == "4096"
BackendBase == "http://" \o OpencodeHost \o ":" \o OpencodePort

(* ----------------------------- error mapping --------------------------- *)

\* a catch block that looks for 'Database' before 'API key'
ErrorHandlerCatch_DatabaseFirst(t) ==
  IF t.isError /\ Includes(t.message, "Database")
    THEN JsonError(503, "Service temporarily unavailable", Absent, Absent)
  ELSE IF t.isError /\ Includes(t.message, "API key")
    THEN JsonError(401, "Authentication error", t.message, Absent)
  ELSE JsonError(500, "Internal server error", Absent, Absent)

\* errorHandler's catch block
ErrorHandlerCatch(t) ==
  IF t.isError /\ Includes(t.message, "API key")
    THEN JsonError(401, "Authentication error", t.message, Absent)
  ELSE IF t.isError /\ Includes(t.message, "Database")
    THEN JsonError(503, "Service temporarily unavailable", Absent, Absent)
  ELSE JsonError(500, "Internal server error", Absent, Absent)

\* A value thrown by a handler or middleware that does not catch it.  Hono's
\* compose catches an Error where it is thrown and answers with the app's
\* onError (none is registered: the default, text 500), so the await next() of
\* an outer middleware does not reject; only a non-Error value travels up to
\* errorHandler, which the modular build alone mounts.
Uncaught(b, t) ==
  IF t.isError THEN Text(500, "Internal Server Error")
  ELSE IF b = "modular" THEN ErrorHandlerCatch(t)
  ELSE Text(500, "Internal Server Error")

\* every build answering an unmatched path with Hono's default text
NotFoundResponse_Default(b) == Text(404, "404 Not Found")

\* app.notFound of the modular build, Hono's default elsewhere
NotFoundResponse(b) ==
  IF b = "modular" THEN JsonError(404, "Not found", Absent, Absent)
  ELSE Text(404, "404 Not Found")

(* -------------------------------- state -------------------------------- *)

NoOut == [method |-> Absent, url |-> Absent, headers |-> NoHeaders, body |-> Absent]
NoAnswer == [status |-> 0, body |-> Absent, headers |-> NoRespHeaders]

\* pc       where the request is: idle, routed, authed, forwarding, done
\* in       the inbound request; route: the handler the router selected
\* apiKey   c.req.param('apiKey'), Absent on a route without the parameter
\* session  the user of the session a middleware attached to the context
\* out      the outbound request envelope; answer: what the backend answered
\* storeCalls, backendCalls   calls made on behalf of this request
\* resolved the outcome of the middleware's getSession: session, nomatch, threw
\* resp     the response written for the caller
\* thrown   the value the downstream of a middleware called on its own threw
\* json     the body of a create request as c.req.json() parsed it
NoThrown == [isError |-> FALSE, message |-> Absent]
NoBody == [parsed |-> FALSE, fields |-> {}, name |-> "", expiresIn |-> 0, userId |-> ""]
Idle == [pc |-> "idle", in |-> NoReq, route |-> "none", apiKey |-> Absent,
         session |-> NoUser, out |-> NoOut, answer |-> NoAnswer,
         storeCalls |-> 0, backendCalls |-> 0, resolved |-> "none", resp |-> NoResp,
         thrown |-> NoThrown, json |-> NoBody]

\* c.req.param('apiKey') on the routes that declare it
ParamApiKey(route, path) ==
  IF route \in {"proxy", "apikeyProxy"} THEN path[2] ELSE Absent

\* the hook before any user creation: nothing configured in the model, nothing decided
NoHook == [pc |-> "off", entries |-> << >>, env |-> "", allowedDomains |-> << >>,
           user |-> [name |-> "", dom |-> ""], email |-> "", result |-> Absent]

Init ==
  /\ build \in Builds
  /\ keys \in [KeyIds -> Users \cup {NoUser}]
  /\ build # "modular" => keys = [id \in KeyIds |-> NoUser]
  /\ req = [s \in Slots |-> Idle]
  /\ hook = NoHook

\* one context object shared by all requests
Ctx_Shared(s) == "r1"

\* the Context c handed to the middleware and the handler of request s: Hono
\* creates one per request
Ctx(s) == s

\* c.get('session') / c.get('apiKeySession') as the handler of request s reads it
ContextSession(s) == req[Ctx(s)].session

\* a middleware step of request s, its c.set(...) landing in the request's context
SetContext(s, step) == [[req EXCEPT ![s] = step] EXCEPT ![Ctx(s)].session = step.session]

\* the response is written and the handler chain of the request ends
Respond(s, r) == req' = [req EXCEPT ![s].pc = "done", ![s].resp = r]

(* --------------------------- router and handlers ----------------------- *)

\* a request arrives and the router selects its handler chain
Receive(s) ==
  /\ req[s].pc = "idle"
  /\ \E rq \in Inbound :
       req' = [req EXCEPT ![s] = [Idle EXCEPT !.pc = "routed", !.in = rq,
                                               !.route = Route(build, rq.method, rq.path),
                                               !.apiKey = ParamApiKey(Route(build, rq.method, rq.path), rq.path)]]
  /\ UNCHANGED <<build, keys, hook>>

\* app.get('/health')
Health(s) ==
  /\ req[s].pc = "routed" /\ req[s].route = "health"
  /\ Respond(s, JsonOk("healthy", {}))
  /\ UNCHANGED <<build, keys, hook>>

\* app.get('/')
Root(s) ==
  /\ req[s].pc = "routed" /\ req[s].route = "root"
  /\ Respond(s, JsonOk("OpenCode Proxy", {}))
  /\ UNCHANGED <<build, keys, hook>>

\* app.all('/p8n/*') of the apikey build
P8n(s) ==
  /\ req[s].pc = "routed" /\ req[s].route = "p8n"
  /\ Respond(s, JsonOk("healthy", {}))
  /\ UNCHANGED <<build, keys, hook>>

\* no handler answers: directly, or after requireAuth under /p8n/api-keys
NotFound(s) ==
  /\ \/ req[s].pc = "routed" /\ req[s].route = "none"
     \/ req[s].pc = "authed" /\ req[s].route = "keysNone"
  /\ Respond(s, NotFoundResponse(build))
  /\ UNCHANGED <<build, keys, hook>>

(* ---------------------- Identity Store (better-auth) ------------------- *)

\* what auth.handler may answer on /p8n/auth/*
AuthHandlerAnswers ==
  {Relayed(200, "session", [h \in RespHeaderNames |-> IF h = "set-cookie" THEN "s_alice" ELSE Absent]),
   Relayed(302, Absent, NoRespHeaders)}

\* auth.api.getSession for the request's own headers: the session of its cookie
GetSession(headers) == SessionOf(headers["cookie"])

\* auth.api.getSession for an x-api-key header: the owner of the issued key
KeyOwner(apiKey) ==
  IF \E id \in KeyIds : keys[id] \in Users /\ Secret(id) = apiKey
    THEN keys[CHOOSE id \in KeyIds : keys[id] \in Users /\ Secret(id) = apiKey]
    ELSE NoUser

\* authRoutes.on(["POST", "GET"], "/*")
AuthPassthrough(s) ==
  /\ req[s].pc = "routed" /\ req[s].route = "auth"
  /\ \E r \in AuthHandlerAnswers \cup {Uncaught(build, t) : t \in StoreThrown} :
       req' = [req EXCEPT ![s].pc = "done", ![s].resp = r,
                          ![s].storeCalls = req[s].storeCalls + 1]
  /\ UNCHANGED <<build, keys, hook>>

\* requireAuth without its "if (!session)" return: next() runs whatever getSession resolved
RequireAuthStep_NoCheck(b, r, outcome) ==
  IF outcome.threw
    THEN [r EXCEPT !.pc = "done", !.resp = Uncaught(b, outcome.thrown),
                   !.storeCalls = r.storeCalls + 1, !.resolved = "threw"]
  ELSE [r EXCEPT !.pc = "authed", !.session = outcome.session,
                 !.storeCalls = r.storeCalls + 1,
                 !.resolved = IF outcome.session = NoUser THEN "nomatch" ELSE "session"]

\* what requireAuth does with the outcome of getSession: user, NoUser, or thrown
RequireAuthStep(b, r, outcome) ==
  IF outcome.threw
    THEN [r EXCEPT !.pc = "done", !.resp = Uncaught(b, outcome.thrown),
                   !.storeCalls = r.storeCalls + 1, !.resolved = "threw"]
  ELSE IF outcome.session = NoUser
    THEN [r EXCEPT !.pc = "done", !.resp = JsonError(401, "Authentication required", Absent, Absent),
                   !.storeCalls = r.storeCalls + 1, !.resolved = "nomatch"]
  ELSE [r EXCEPT !.pc = "authed", !.session = outcome.session,
                 !.storeCalls = r.storeCalls + 1, !.resolved = "session"]

Returned(u) == [threw |-> FALSE, session |-> u, thrown |-> NoThrown]
Threw(t) == [threw |-> TRUE, session |-> NoUser, thrown |-> t]

\* apiKeyRoutes.use('*', requireAuth)
RequireAuth(s) ==
  /\ req[s].pc = "routed" /\ req[s].route \in {"create", "list", "delete", "keysNone"}
  /\ \E outcome \in {Returned(GetSession(req[s].in.headers))} \cup {Threw(t) : t \in StoreThrown} :
       req' = SetContext(s, RequireAuthStep(build, req[s], outcome))
  /\ UNCHANGED <<build, keys, hook>>

\* the prefix the apiKey() plugin puts before a generated key: none is configured
DefaultPrefix == ""

\* the random characters of the key generated for a new record
RandomPart(id) == IF id = "id1" THEN "k1" ELSE "k2"

\* the key auth.api.createApiKey generates: no prefix in the body, so the plugin's default
GenerateKey(id) == DefaultPrefix \o RandomPart(id)

\* the default lifetime of a key, in seconds
OneYear == 60 * 60 * 24 * 365

\* what c.req.json() yields for the bodies a caller may post: the fields present
\* in the object and their values ("" and 0 where a field is missing)
CreateBodies ==
  {[parsed |-> TRUE, fields |-> f,
    name |-> IF "name" \in f THEN n ELSE "",
    expiresIn |-> IF "expiresIn" \in f THEN e ELSE 0,
    userId |-> IF "userId" \in f THEN "bob" ELSE ""] :
     f \in SUBSET {"name", "expiresIn", "userId"}, n \in {"ci", ""}, e \in {604800, 0}}

\* c.req.json() of a body that is no JSON text
JsonSyntaxError == [isError |-> TRUE, message |-> "Unexpected token in JSON"]

\* the email of a user's account
UserEmail(u) == u \o "@a.io"

\* a handler that lets the body name the owner of the key
CreateArgs_BodyUserId(body, user) ==
  [name |-> IF body.name = "" THEN "API Key" ELSE body.name,
   expiresIn |-> IF body.expiresIn = 0 THEN OneYear ELSE body.expiresIn,
   userId |-> IF "userId" \in body.fields THEN body.userId ELSE user,
   userEmail |-> UserEmail(user)]

\* the arguments the handler passes to auth.api.createApiKey; body.x || d is d
\* when x is missing and when x is falsy ("" or 0)
CreateArgs(body, user) ==
  [name |-> IF body.name = "" THEN "API Key" ELSE body.name,
   expiresIn |-> IF body.expiresIn = 0 THEN OneYear ELSE body.expiresIn,
   userId |-> user,
   userEmail |-> UserEmail(user)]

\* the key auth.api.createApiKey returns, created with args
CreatedKey(id, args) ==
  [id |-> id, key |-> Secret(id), name |-> args.name, expiresIn |-> args.expiresIn,
   userId |-> args.userId, userEmail |-> args.userEmail]

\* apiKeyRoutes.post('/create')
CreateKey(s) ==
  /\ req[s].pc = "authed" /\ req[s].route = "create"
  /\ \/ /\ Respond(s, Uncaught(build, JsonSyntaxError))
        /\ UNCHANGED keys
     \/ \E body \in CreateBodies :
          /\ ContextSession(s) = NoUser
          /\ req' = [req EXCEPT ![s].pc = "done", ![s].json = body,
                                ![s].resp = JsonError(401, "Authentication required", Absent, Absent)]
          /\ UNCHANGED keys
     \/ \E body \in CreateBodies, id \in KeyIds :
          /\ ContextSession(s) # NoUser
          /\ keys[id] = NoUser
          /\ Secret(id) = GenerateKey(id)
          /\ keys' = [keys EXCEPT ![id] = CreateArgs(body, ContextSession(s)).userId]
          /\ req' = [req EXCEPT ![s].pc = "done", ![s].json = body,
                                ![s].resp = JsonOk("created", {CreatedKey(id, CreateArgs(body, ContextSession(s)))}),
                                ![s].storeCalls = req[s].storeCalls + 1]
     \/ \E body \in CreateBodies, t \in StoreThrown :
          /\ ContextSession(s) # NoUser
          /\ req' = [req EXCEPT ![s].pc = "done", ![s].json = body,
                                ![s].resp = Uncaught(build, t),
                                ![s].storeCalls = req[s].storeCalls + 1]
          /\ UNCHANGED keys
  /\ UNCHANGED <<build, hook>>

\* what the store may hold in the 'key' column of a record: the key itself or its hash
Hashed(id) == "hash:" \o id
KeyColumns(id) == {Secret(id), Hashed(id)}

\* a record auth.api.listApiKeys returns for key id, with k in its 'key' column
KeyRecord(id, k) ==
  [id |-> id, name |-> "API Key", key |-> k, userId |-> keys[id],
   createdAt |-> "t0", expiresAt |-> "t0+1y", updatedAt |-> "t0"]

\* a store that lists every issued key, whoever the session's user is
ListApiKeys_AnyOwner(headers) ==
  {{KeyRecord(id, col[id]) : id \in {k \in KeyIds : keys[k] \in Users}} :
     col \in {f \in [KeyIds -> UNION {KeyColumns(id) : id \in KeyIds}] :
                \A id \in KeyIds : f[id] \in KeyColumns(id)}}

\* auth.api.listApiKeys for the request's own headers: the records of the session's user
ListApiKeys(headers) ==
  {{KeyRecord(id, col[id]) : id \in {k \in KeyIds : keys[k] = GetSession(headers)}} :
     col \in {f \in [KeyIds -> UNION {KeyColumns(id) : id \in KeyIds}] :
                \A id \in KeyIds : f[id] \in KeyColumns(id)}}

\* the handler hands the store's records back as they are
Sanitize_Identity(k) == k

\* keys.map(k => ({id, name, createdAt, expiresAt, updatedAt}))
Sanitize(k) ==
  [id |-> k.id, name |-> k.name, createdAt |-> k.createdAt,
   expiresAt |-> k.expiresAt, updatedAt |-> k.updatedAt]

\* apiKeyRoutes.get('/list')
ListKeys(s) ==
  /\ req[s].pc = "authed" /\ req[s].route = "list"
  /\ \E r \in {JsonOk("keys", {Sanitize(k) : k \in recs}) : recs \in ListApiKeys(req[s].in.headers)}
               \cup {Uncaught(build, t) : t \in StoreThrown} :
       req' = [req EXCEPT ![s].pc = "done", ![s].resp = r,
                          ![s].storeCalls = req[s].storeCalls + 1]
  /\ UNCHANGED <<build, keys, hook>>

\* apiKeyRoutes.delete('/:keyId')
DeleteKey(s) ==
  /\ req[s].pc = "authed" /\ req[s].route = "delete"
  /\ LET keyId == req[s].in.path[3]
         owner == GetSession(req[s].in.headers)
     IN \/ /\ keyId \in KeyIds /\ keys[keyId] = owner
           /\ keys' = [keys EXCEPT ![keyId] = Revoked]
           /\ req' = [req EXCEPT ![s].pc = "done", ![s].resp = JsonOk("success", {}),
                                 ![s].storeCalls = req[s].storeCalls + 1]
        \/ \E t \in StoreThrown \cup
                    (IF keyId \in KeyIds /\ keys[keyId] = owner THEN {}
                     ELSE {[isError |-> TRUE, message |-> "API Key not found"]}) :
             /\ req' = [req EXCEPT ![s].pc = "done", ![s].resp = Uncaught(build, t),
                                   ![s].storeCalls = req[s].storeCalls + 1]
             /\ UNCHANGED keys
  /\ UNCHANGED <<build, hook>>

(* --------------------------- forwarding engine ------------------------- *)

\* Headers are case-insensitive: the name a Headers object files a key under
Lower(name) ==
  CASE name = "X-Forwarded-For" -> "x-forwarded-for"
    [] name = "X-Forwarded-Host" -> "x-forwarded-host"
    [] name = "Authorization" -> "authorization"
    [] OTHER -> name

\* c.req.header(): the inbound headers as the entries of an object, lower-cased keys
HeaderOrder ==
  <<"host", "authorization", "cookie", "x-forwarded-for", "x-forwarded-host", "x-api-key">>
HeaderEntries(headers) ==
  SelectSeq([i \in 1..Len(HeaderOrder) |-> <<HeaderOrder[i], headers[HeaderOrder[i]]>>],
            LAMBDA e : e[2] # Absent)

\* hono/proxy builds the Headers of a plain object entry by entry: an undefined
\* value deletes the name, any other value sets it
RECURSIVE HeadersInit(_, _)
HeadersInit(entries, acc) ==
  IF entries = << >> THEN acc
  ELSE HeadersInit(Tail(entries), [acc EXCEPT ![Lower(Head(entries)[1])] = Head(entries)[2]])

\* proxy(url, c.req): method, headers and body of the raw inbound request
ProxyRaw(url, in) ==
  [method |-> in.method, url |-> url, headers |-> in.headers, body |-> in.body]

\* proxy(url, {headers}): a new GET request carrying the given headers
ProxyInit(url, entries) ==
  [method |-> "GET", url |-> url, headers |-> HeadersInit(entries, NoHeaders), body |-> Absent]

\* String.prototype.replace(/^prefix/, '')
StripPrefix(str, prefix) ==
  IF StartsWith(str, prefix) THEN SubSeq(str, Len(prefix) + 1, Len(str)) ELSE str

\* index.ts: fetch(targetUrl, {method, headers: c.req.raw.headers, body})
FetchTarget(in) ==
  [method |-> in.method,
   url |-> BackendBase \o StripPrefix(PathName(in.path), "/api/opencode") \o in.query,
   headers |-> in.headers, body |-> in.body]

\* part_003: proxy(`.../${c.req.param('path')}`, {headers: {...}})
ParamTarget(in) ==
  ProxyInit(BackendBase \o "/" \o in.path[3],
            HeaderEntries(in.headers)
              \o << <<"X-Forwarded-For", "127.0.0.1">>,
                    <<"X-Forwarded-Host", in.headers["host"]>>,
                    <<"Authorization", Absent>> >>)

\* part_004: splits.length > 2 ? splits.slice(3).join('/') : ''
ApikeyTarget(in) ==
  LET splits == SplitPath(in.path)
      openCodePath == IF Len(splits) > 2 THEN Join(Slice(splits, 3), "/") ELSE ""
  IN ProxyRaw(BackendBase \o "/" \o openCodePath, in)

\* the credential segment kept in the target: slice(2) for slice(3)
ProxyTarget_KeepsCredential(in) ==
  LET splits == SplitPath(in.path)
      openCodePath == IF Len(splits) > 3 THEN Join(Slice(splits, 2), "/") ELSE ""
  IN ProxyRaw(BackendBase \o "/" \o openCodePath, in)

\* routes/proxy.ts: splits.length > 3 ? splits.slice(3).join('/') : ''
ProxyTarget(in) ==
  LET splits == SplitPath(in.path)
      openCodePath == IF Len(splits) > 3 THEN Join(Slice(splits, 3), "/") ELSE ""
  IN ProxyRaw(BackendBase \o "/" \o openCodePath, in)

\* the outbound request leaves and the handler awaits the backend
Dispatch(s, out) ==
  req' = [req EXCEPT ![s].pc = "forwarding", ![s].out = out,
                     ![s].backendCalls = req[s].backendCalls + 1]

\* index.ts app.all('/api/opencode/*')
FetchProxy(s) ==
  /\ req[s].pc = "routed" /\ req[s].route = "fetchProxy"
  /\ Dispatch(s, FetchTarget(req[s].in))
  /\ UNCHANGED <<build, keys, hook>>

\* part_003 app.all('/api/opencode/:path')
ParamProxy(s) ==
  /\ req[s].pc = "routed" /\ req[s].route = "paramProxy"
  /\ Dispatch(s, ParamTarget(req[s].in))
  /\ UNCHANGED <<build, keys, hook>>

\* part_004 app.all('/opencode/:apiKey/*')
ApikeyProxy(s) ==
  /\ req[s].pc = "routed" /\ req[s].route = "apikeyProxy"
  /\ Dispatch(s, ApikeyTarget(req[s].in))
  /\ UNCHANGED <<build, keys, hook>>

\* routes/proxy.ts proxyRoutes.all('/:apiKey/*'); no middleware is registered
\* in front of it (the proxyRoutes.use line is commented out)
ProxyRoute(s) ==
  /\ req[s].pc = "routed" /\ req[s].route = "proxy"
  /\ Dispatch(s, ProxyTarget(req[s].in))
  /\ UNCHANGED <<build, keys, hook>>

\* the gateway answering 200 whatever the backend's status
RelayResponse_Always200(b, ans) == Relayed(200, ans.body, ans.headers)

\* what the handler returns once the backend has answered
RelayResponse(b, ans) ==
  IF b = "param"
    THEN Relayed(ans.status, ans.body, [ans.headers EXCEPT !["set-cookie"] = Absent])
    ELSE Relayed(ans.status, ans.body, ans.headers)

\* what the caller gets when the outbound call rejects
ForwardFailure(b, t) ==
  IF b = "fetch"
    THEN JsonError(502, "Failed to proxy request", Absent,
                   IF t.isError THEN t.message ELSE "Unknown error")
    ELSE Uncaught(b, t)

\* the backend answers and the handler relays the answer
BackendRespond(s) ==
  /\ req[s].pc = "forwarding"
  /\ \E ans \in BackendAnswers :
       req' = [req EXCEPT ![s].pc = "done", ![s].answer = ans,
                          ![s].resp = RelayResponse(build, ans)]
  /\ UNCHANGED <<build, keys, hook>>

\* the backend cannot be reached, or the connection is reset
BackendFail(s) ==
  /\ req[s].pc = "forwarding"
  /\ \E t \in BackendThrown : Respond(s, ForwardFailure(build, t))
  /\ UNCHANGED <<build, keys, hook>>

\* the response is delivered; the request's context is discarded
Deliver(s) ==
  /\ req[s].pc = "done"
  /\ req' = [req EXCEPT ![s] = Idle]
  /\ UNCHANGED <<build, keys, hook>>

Next ==
  \E s \in Slots :
    \/ Receive(s)
    \/ Health(s)
    \/ Root(s)
    \/ P8n(s)
    \/ NotFound(s)
    \/ AuthPassthrough(s)
    \/ RequireAuth(s)
    \/ CreateKey(s)
    \/ ListKeys(s)
    \/ DeleteKey(s)
    \/ FetchProxy(s)
    \/ ParamProxy(s)
    \/ ApikeyProxy(s)
    \/ ProxyRoute(s)
    \/ BackendRespond(s)
    \/ BackendFail(s)
    \/ Deliver(s)

Spec == Init /\ [][Next]_vars

(* ------------------- validateApiKey, called on its own ----------------- *)
(* No route of any build mounts validateApiKey, so it is exercised as the  *)
(* exported middleware it is: a caller hands it a context whose route      *)
(* parameter apiKey is set (or missing) and a next() that resolves or      *)
(* rejects.                                                                *)

\* what the handler behind the middleware may throw
DownstreamThrown ==
  {[isError |-> TRUE, message |-> "Unable to connect"], [isError |-> FALSE, message |-> "oops"]}

\* validateApiKey up to its await next(): the format check, then getSession
ValidateApiKeyStep(r, outcome) ==
  IF r.apiKey = Absent \/ r.apiKey = "" \/ ~StartsWith(r.apiKey, "oc_")
    THEN [r EXCEPT !.pc = "done", !.resp = JsonError(401, "Invalid API key format", Absent, Absent)]
  ELSE IF outcome.threw
    THEN [r EXCEPT !.pc = "done", !.resp = JsonError(401, "Authentication failed", Absent, Absent),
                   !.storeCalls = r.storeCalls + 1, !.resolved = "threw"]
  ELSE IF outcome.session = NoUser
    THEN [r EXCEPT !.pc = "done", !.resp = JsonError(401, "Invalid or expired API key", Absent, Absent),
                   !.storeCalls = r.storeCalls + 1, !.resolved = "nomatch"]
  ELSE [r EXCEPT !.pc = "authed", !.session = outcome.session,
                 !.storeCalls = r.storeCalls + 1, !.resolved = "session"]

\* validateApiKey after its await next(): a rejection lands in its catch block
ValidateApiKeyAfterNext(r, rejected, downstream) ==
  IF rejected
    THEN [r EXCEPT !.pc = "done", !.resp = JsonError(401, "Authentication failed", Absent, Absent)]
    ELSE [r EXCEPT !.pc = "done", !.resp = downstream]

InitGate ==
  /\ build = "modular"
  /\ keys \in [KeyIds -> Users \cup {NoUser, Revoked}]
  /\ req = [s \in Slots |-> Idle]
  /\ hook = NoHook

\* the caller builds the context: the route parameter as the router extracted it
GateReceive(s) ==
  /\ req[s].pc = "idle"
  /\ \E k \in Creds \cup {Absent}, hk \in Creds \cup {Absent} :
       req' = [req EXCEPT ![s] = [Idle EXCEPT !.pc = "routed", !.route = "gate", !.apiKey = k,
                                               !.in = [NoReq EXCEPT !.headers["x-api-key"] = hk]]]
  /\ UNCHANGED <<build, keys, hook>>

\* validateApiKey(c, next) runs up to next()
ValidateApiKey(s) ==
  /\ req[s].pc = "routed" /\ req[s].route = "gate"
  /\ \E outcome \in {Returned(KeyOwner(req[s].apiKey))} \cup {Threw(t) : t \in StoreThrown} :
       req' = SetContext(s, ValidateApiKeyStep(req[s], outcome))
  /\ UNCHANGED <<build, keys, hook>>

\* a next() that passes every value the downstream handler throws on to its caller
ComposeCatch_Rethrow(t) == [rejected |-> TRUE, res |-> NoResp]

\* next() is Hono's dispatch of the rest of the chain: a thrown Error is answered
\* there by the app's error handler (the default one, text 500) and next()
\* resolves; any other thrown value rejects next()
ComposeCatch(t) ==
  IF t.isError
    THEN [rejected |-> FALSE, res |-> Text(500, "Internal Server Error")]
    ELSE [rejected |-> TRUE, res |-> NoResp]

\* next() settles and validateApiKey returns
GateDownstream(s) ==
  /\ req[s].pc = "authed" /\ req[s].route = "gate"
  /\ \/ req' = [req EXCEPT ![s] = ValidateApiKeyAfterNext(req[s], FALSE, JsonOk("downstream", {}))]
     \/ \E t \in DownstreamThrown :
          req' = [req EXCEPT ![s] =
                    [ValidateApiKeyAfterNext(req[s], ComposeCatch(t).rejected, ComposeCatch(t).res)
                       EXCEPT !.thrown = t]]
  /\ UNCHANGED <<build, keys, hook>>

NextGate ==
  \E s \in Slots :
    \/ GateReceive(s)
    \/ ValidateApiKey(s)
    \/ GateDownstream(s)
    \/ Deliver(s)

SpecGate == InitGate /\ [][NextGate]_vars

(* ----------------------- two requests in flight ------------------------ *)

PairSlots == {"r1", "r2"}

\* the requests the two callers send
PairInbound ==
  {[method |-> "POST", path |-> <<"p8n", "api-keys", "create">>, query |-> "",
    headers |-> Hdrs(Absent, ck, Absent), body |-> "data"] : ck \in {"s_alice", "s_bob"}}
  \cup {[method |-> "GET", path |-> <<"p8n", "api-keys", "list">>, query |-> "",
         headers |-> Hdrs(Absent, ck, Absent), body |-> Absent] : ck \in {"s_alice", Absent}}
  \cup {[method |-> "DELETE", path |-> <<"p8n", "api-keys", "id1">>, query |-> "",
         headers |-> Hdrs(Absent, "s_bob", Absent), body |-> Absent],
        [method |-> "GET", path |-> <<"opencode", "oc_k1", "app">>, query |-> "?a=1",
         headers |-> Hdrs("Bearer t", Absent, Absent), body |-> Absent],
        [method |-> "POST", path |-> <<"opencode", "k2">>, query |-> "",
         headers |-> Hdrs(Absent, "s_bob", "6.6.6.6"), body |-> "data"]}

\* the credentials handed to validateApiKey
PairCreds == {"oc_k1", "k2"}

InitPair ==
  /\ build = "modular"
  /\ keys \in {k \in [KeyIds -> Users \cup {NoUser}] : k["id1"] \in Users /\ k["id2"] = NoUser}
  /\ req = [s \in PairSlots |-> Idle]
  /\ hook = NoHook

\* a request arrives while the other may be in flight
PairReceive(s) ==
  /\ req[s].pc = "idle"
  /\ \E rq \in PairInbound :
       req' = [req EXCEPT ![s] = [Idle EXCEPT !.pc = "routed", !.in = rq,
                                               !.route = Route(build, rq.method, rq.path),
                                               !.apiKey = ParamApiKey(Route(build, rq.method, rq.path), rq.path)]]
  /\ UNCHANGED <<build, keys, hook>>

\* validateApiKey is handed a context while the other request may be in flight
PairGateReceive(s) ==
  /\ req[s].pc = "idle"
  /\ \E k \in PairCreds :
       req' = [req EXCEPT ![s] = [Idle EXCEPT !.pc = "routed", !.route = "gate", !.apiKey = k]]
  /\ UNCHANGED <<build, keys, hook>>

NextPair ==
  \E s \in PairSlots :
    \/ PairReceive(s)
    \/ PairGateReceive(s)
    \/ RequireAuth(s)
    \/ CreateKey(s)
    \/ ListKeys(s)
    \/ DeleteKey(s)
    \/ ProxyRoute(s)
    \/ BackendRespond(s)
    \/ BackendFail(s)
    \/ ValidateApiKey(s)
    \/ GateDownstream(s)
    \/ Deliver(s)

SpecPair == InitPair /\ [][NextPair]_vars

(* --------------------- errorHandler, called on its own ----------------- *)
(* errorHandler is exercised as the exported middleware it is: its next()  *)
(* resolves after the downstream wrote a response, or rejects with a value *)
(* that its catch block receives.                                          *)

\* the stage of the pipeline whose failure a thrown value reports
Stages == {"gate", "forwarding"}

\* the text of a thrown value that mentions, or not, 'API key' and 'Database'
MessageOf(api, db, dbFirst) ==
  IF api /\ db THEN (IF dbFirst THEN "Database rejected the API key"
                                ELSE "API key store: Database down")
  ELSE IF api THEN "Invalid API key"
  ELSE IF db THEN "Database connection lost"
  ELSE "socket hang up"

\* the values the catch block may receive: Errors and other thrown values
CaughtValues ==
  {[isError |-> e, message |-> MessageOf(a, d, f), stage |-> st, api |-> a, db |-> d] :
     e \in BOOLEAN, a \in BOOLEAN, d \in BOOLEAN, f \in BOOLEAN, st \in Stages}

\* the responses a downstream handler may have written when next() resolves
DownstreamResponses ==
  {JsonOk("downstream", {}), JsonError(401, "Authentication required", Absent, Absent),
   Text(404, "404 Not Found"), Relayed(500, "backend error", NoRespHeaders)}

\* errorHandler after its await next() has settled
ErrorHandlerStep(r) ==
  IF r.thrown.message = Absent
    THEN [r EXCEPT !.pc = "done"]
    ELSE [r EXCEPT !.pc = "done", !.resp = ErrorHandlerCatch(r.thrown)]

InitErr ==
  /\ build = "modular"
  /\ keys = [id \in KeyIds |-> NoUser]
  /\ req = [s \in Slots |-> Idle]
  /\ hook = NoHook

\* errorHandler(c, next) is called for a request
ErrReceive(s) ==
  /\ req[s].pc = "idle"
  /\ \E rq \in PairInbound :
       req' = [req EXCEPT ![s] = [Idle EXCEPT !.pc = "routed", !.in = rq, !.route = "errh"]]
  /\ UNCHANGED <<build, keys, hook>>

\* next() settles: the downstream wrote a response, or threw
ErrDownstream(s) ==
  /\ req[s].pc = "routed" /\ req[s].route = "errh"
  /\ \/ \E d \in DownstreamResponses :
          req' = [req EXCEPT ![s].pc = "settled", ![s].resp = d]
     \/ \E t \in CaughtValues :
          req' = [req EXCEPT ![s].pc = "settled", ![s].thrown = t]
  /\ UNCHANGED <<build, keys, hook>>

\* errorHandler returns
ErrorHandler(s) ==
  /\ req[s].pc = "settled" /\ req[s].route = "errh"
  /\ req' = [req EXCEPT ![s] = ErrorHandlerStep(req[s])]
  /\ UNCHANGED <<build, keys, hook>>

NextErr ==
  \E s \in Slots :
    \/ ErrReceive(s)
    \/ ErrDownstream(s)
    \/ ErrorHandler(s)
    \/ Deliver(s)

SpecErr == InitErr /\ [][NextErr]_vars

(* ---------------- the account-creation hook, called on its own --------- *)

\* String.prototype.indexOf for a one-character needle, 1-based; 0 when absent
IndexOf(str, ch) ==
  IF \E i \in 1..Len(str) : SubSeq(str, i, i) = ch
    THEN CHOOSE i \in 1..Len(str) :
           SubSeq(str, i, i) = ch /\ \A j \in 1..(i - 1) : SubSeq(str, j, j) # ch
    ELSE 0

\* String.prototype.split(ch)
RECURSIVE Split(_, _)
Split(str, ch) ==
  IF IndexOf(str, ch) = 0 THEN <<str>>
  ELSE <<SubSeq(str, 1, IndexOf(str, ch) - 1)>>
         \o Split(SubSeq(str, IndexOf(str, ch) + 1, Len(str)), ch)

\* String.prototype.trim
RECURSIVE Trim(_)
Trim(str) ==
  IF str = "" THEN ""
  ELSE IF SubSeq(str, 1, 1) = " " THEN Trim(SubSeq(str, 2, Len(str)))
  ELSE IF SubSeq(str, Len(str), Len(str)) = " " THEN Trim(SubSeq(str, 1, Len(str) - 1))
  ELSE str

\* allowedDomains.map(d => d.trim())
TrimAll(arr) == [i \in 1..Len(arr) |-> Trim(arr[i])]

\* Array.prototype.includes
ArrIncludes(arr, x) == \E i \in 1..Len(arr) : arr[i] = x

\* configSchema.allowedDomains: z.string().transform(s => s.split(','))
ParseAllowedDomains(env) == Split(env, ",")

\* config.allowedDomains.map(d => d.trim()).filter(Boolean)
CleanDomains(allowedDomains) == SelectSeq(TrimAll(allowedDomains), LAMBDA d : d # "")

\* user.email.split('@')[1]: undefined when the email has no '@'
EmailDomain(email) ==
  IF Len(Split(email, "@")) >= 2 THEN Split(email, "@")[2] ELSE Absent

\* databaseHooks.user.create.before: "accept" is return {data: user}, "reject" the APIError
UserCreateBefore(allowedDomains, email) ==
  IF email = "" THEN "accept"
  ELSE IF Len(CleanDomains(allowedDomains)) = 0 THEN "accept"
  ELSE IF ~ArrIncludes(CleanDomains(allowedDomains), EmailDomain(email)) THEN "reject"
  ELSE "accept"

\* what an operator writes into ALLOWED_DOMAINS: domains, blanks, padding
Domains == {"a.io", "b.io"}
Pads == {"", " "}
DomainEntries == [l : Pads, d : Domains \cup {""}, r : Pads]
EntryText(e) == e.l \o e.d \o e.r
EntryLists == SeqsUpTo(DomainEntries, MaxEntries) \ {<< >>}

\* the users a sign-up creates: an email name@dom (the name may hold an '@'
\* itself), an email without '@' (no dom), or no email at all
NewUsers ==
  [name : {"u", "u@a.io", "u@c.io"}, dom : Domains \cup {"c.io"}]
    \cup {[name |-> "a.io", dom |-> ""], [name |-> "", dom |-> ""]}
EmailOf(u) ==
  IF u.name = "" THEN ""
  ELSE IF u.dom = "" THEN u.name
  ELSE u.name \o "@" \o u.dom

InitHook ==
  /\ build = "modular"
  /\ keys = [id \in KeyIds |-> NoUser]
  /\ req = [s \in Slots |-> Idle]
  /\ \E entries \in EntryLists :
       hook = [NoHook EXCEPT !.pc = "boot", !.entries = entries,
                             !.env = Join([i \in 1..Len(entries) |-> EntryText(entries[i])], ",")]

\* configSchema.parse at startup
LoadConfig ==
  /\ hook.pc = "boot"
  /\ hook' = [hook EXCEPT !.pc = "ready", !.allowedDomains = ParseAllowedDomains(hook.env)]
  /\ UNCHANGED <<build, keys, req>>

\* a sign-up reaches user creation and the hook decides
CreateUser ==
  /\ hook.pc = "ready"
  /\ \E u \in NewUsers :
       hook' = [hook EXCEPT !.pc = "decided", !.user = u, !.email = EmailOf(u),
                            !.result = UserCreateBefore(hook.allowedDomains, EmailOf(u))]
  /\ UNCHANGED <<build, keys, req>>

\* the sign-up is over
HookDone ==
  /\ hook.pc = "decided"
  /\ hook' = [hook EXCEPT !.pc = "ready", !.user = NoHook.user, !.email = "", !.result = Absent]
  /\ UNCHANGED <<build, keys, req>>

NextHook == LoadConfig \/ CreateUser \/ HookDone

SpecHook == InitHook /\ [][NextHook]_vars

(* ------------------------------ URL parsing ---------------------------- *)

\* index of the first '?' of a URL string, 0 when it has none
QueryStart(u) ==
  IF \E i \in 1..Len(u) : SubSeq(u, i, i) = "?"
    THEN CHOOSE i \in 1..Len(u) :
           SubSeq(u, i, i) = "?" /\ \A j \in 1..(i - 1) : SubSeq(u, j, j) # "?"
    ELSE 0

\* the URL up to its query, and its query ('' when it has none)
UrlPath(u) == IF QueryStart(u) = 0 THEN u ELSE SubSeq(u, 1, QueryStart(u) - 1)
UrlSearch(u) == IF QueryStart(u) = 0 THEN "" ELSE SubSeq(u, QueryStart(u), Len(u))

RestStrings == {Join(r, "/") : r \in Rests}
OnApiKeyRoute(s) == req[s].route \in {"proxy", "apikeyProxy"}
Forwarded(s) == req[s].backendCalls > 0
CredentialRevoked(k) == \E id \in KeyIds : Secret(id) = k /\ keys[id] = Revoked

(* -------------------------------- claims ------------------------------- *)

\* C1: on the proxy route of the modular build the backend is called only
\* for a request whose credential the gate resolved to a Principal (a session
\* attached to the context by an Identity Store call).
C1_GateBeforeBackend ==
  \A s \in Slots :
    (req[s].route = "proxy" /\ Forwarded(s)) =>
      (req[s].session \in Users /\ req[s].storeCalls > 0)

\* C2: a credential on the proxy route that does not start with 'oc_' is
\* answered 401 with no Identity Store call and no backend call.
C2_BadPrefixRejected ==
  \A s \in Slots :
    (req[s].route = "proxy" /\ ~StartsWith(req[s].apiKey, "oc_") /\ req[s].pc # "routed") =>
      /\ req[s].pc = "done" /\ req[s].resp.status = 401
      /\ req[s].storeCalls = 0 /\ ~Forwarded(s)

\* C3: a proxy request presenting a credential that DELETE /:keyId has
\* revoked is answered 401 and is never forwarded.
C3_RevokedNeverForwarded ==
  \A s \in Slots :
    (req[s].route = "proxy" /\ CredentialRevoked(req[s].apiKey) /\ req[s].pc # "routed") =>
      (req[s].pc = "done" /\ req[s].resp.status = 401 /\ ~Forwarded(s))

\* C4: a resolver that reports no match is answered 401 and a resolver that
\* throws is answered 503.
C4_NoMatchAndFailureDistinct ==
  \A s \in Slots :
    /\ req[s].resolved = "nomatch" => req[s].resp.status = 401
    /\ req[s].resolved = "threw" => req[s].resp.status = 503

\* C5: a credential on the proxy route that starts with 'oc_' but that the
\* Identity Store does not know is answered 401 'Invalid or expired API key'
\* and the backend is not called.
C5_UnknownKeyRejected ==
  \A s \in Slots :
    (req[s].route = "proxy" /\ StartsWith(req[s].apiKey, "oc_")
       /\ KeyOwner(req[s].apiKey) = NoUser /\ req[s].pc # "routed") =>
      /\ req[s].pc = "done" /\ req[s].resp.status = 401
      /\ req[s].resp.error = "Invalid or expired API key"
      /\ ~Forwarded(s)

\* C6: the outbound request of every forwarded request carries neither the
\* caller's Authorization header nor the caller's cookie header.
C6_NoCallerCredentialsOutbound ==
  \A s \in Slots :
    Forwarded(s) =>
      (req[s].out.headers["authorization"] = Absent /\ req[s].out.headers["cookie"] = Absent)

\* C7: no response relayed from the backend carries a Set-Cookie header.
C7_NoSetCookieRelayed ==
  \A s \in Slots :
    (req[s].pc = "done" /\ req[s].answer # NoAnswer) =>
      req[s].resp.headers["set-cookie"] = Absent

\* C8: whenever the backend answered, the caller's response has the backend's
\* status code and the backend's body.
C8_StatusAndBodyRelayed ==
  \A s \in Slots :
    req[s].answer # NoAnswer =>
      (req[s].resp.status = req[s].answer.status /\ req[s].resp.body = req[s].answer.body)

C8_Witness ==
  \E s \in Slots :
    /\ req[s].pc = "done" /\ req[s].route = "proxy" /\ KeyOwner(req[s].apiKey) \in Users
    /\ req[s].answer.status = 500 /\ req[s].resp.status = 500
    /\ req[s].resp.body = "backend error"

\* C9: a request for /opencode/<credential>/<rest> is sent to
\* http://<backendHost>:<backendPort>/<rest>, one for /opencode/<credential>
\* alone to the backend root, and the credential is no part of the target.
C9_PathRewritten ==
  \A s \in Slots :
    (OnApiKeyRoute(s) /\ Forwarded(s)) =>
      LET inbound == PathName(req[s].in.path)
          prefix == "/opencode/" \o req[s].apiKey
          target == UrlPath(req[s].out.url)
      IN /\ inbound = prefix => target = "http://opencode:4096/"
         /\ \A rest \in RestStrings :
              inbound = prefix \o "/" \o rest => target = "http://opencode:4096/" \o rest
         /\ ~Includes(req[s].out.url, req[s].apiKey)

C9_Witness ==
  \E s \in Slots :
    /\ req[s].route = "proxy" /\ Forwarded(s)
    /\ req[s].in.path = <<"opencode", "oc_k1", "app", "app">>
    /\ req[s].out.url = "http://opencode:4096/app/app"

\* C10: the query part of the outbound URL equals the query part of the
\* inbound URL, for every forwarded request.
C10_QueryPreserved ==
  \A s \in Slots :
    Forwarded(s) => UrlSearch(req[s].out.url) = req[s].in.query

BackendFailed(s) == req[s].pc = "done" /\ Forwarded(s) /\ req[s].answer = NoAnswer

\* C11: the outbound request of every forwarded request has the inbound
\* request's method and carries the inbound request's body.
C11_MethodAndBodyPreserved ==
  \A s \in Slots :
    Forwarded(s) =>
      (req[s].out.method = req[s].in.method /\ req[s].out.body = req[s].in.body)

C13_BackendFailureIs502 ==
  \A s \in Slots :
    BackendFailed(s) =>
      /\ req[s].resp.status = 502 /\ req[s].resp.kind = "json"
      /\ req[s].resp.error = "Failed to proxy request"

\* the texts of the exceptions the Identity Store and the backend call may raise
ThrownMessages == {t.message : t \in StoreThrown \cup BackendThrown}

\* a response the gateway produced itself to report a failure
GatewayError(r) == r.kind # "relay" /\ r.status >= 400

\* C14: an exception nothing classifies is answered 500, and no error response
\* carries the text of the thrown exception in any of its fields.
C14_NoExceptionDetail ==
  /\ \A b \in Builds, t \in StoreThrown \cup BackendThrown : Uncaught(b, t).status = 500
  /\ \A s \in Slots :
       (req[s].pc = "done" /\ GatewayError(req[s].resp)) =>
         /\ req[s].resp.message \notin ThrownMessages
         /\ req[s].resp.details \notin ThrownMessages
         /\ req[s].resp.body \notin ThrownMessages

\* the status codes of the error taxonomy
Taxonomy == {401, 404, 502, 503, 504, 500}

\* C15: every error response the gateway of the modular build produces is a JSON
\* object with an 'error' field and a status code of the taxonomy.
C15_UniformErrorEnvelope ==
  \A s \in Slots :
    (build = "modular" /\ req[s].pc = "done" /\ GatewayError(req[s].resp)) =>
      /\ req[s].resp.kind = "json" /\ req[s].resp.error # Absent
      /\ req[s].resp.status \in Taxonomy

\* the routes the spec binds to an authorization requirement
AuthRequired(route) == route \in {"proxy", "create", "list", "delete", "keysNone"}

\* one step of a request through Received (routed), Authorized (authed),
\* Forwarding and the terminal states Rejected / Failed / Completed (done)
LifecycleStep(a, b) ==
  \/ a.pc = b.pc /\ (a.pc = "done" => a.resp = b.resp)
  \/ a.pc = "idle" /\ b.pc = "routed"
  \/ a.pc = "routed" /\ b.pc = "authed" /\ AuthRequired(a.route) /\ b.session \in Users
  \/ a.pc = "routed" /\ b.pc = "forwarding" /\ ~AuthRequired(a.route)
  \/ a.pc = "authed" /\ b.pc = "forwarding"
  \/ a.pc \in {"routed", "authed"} /\ b.pc = "done"
       /\ (b.resp.status >= 400 => (b.resp.kind = "json" /\ b.resp.error # Absent))
  \/ a.pc = "forwarding" /\ b.pc = "done"
       /\ IF b.answer = NoAnswer
            THEN b.resp.kind = "json" /\ b.resp.error # Absent
            ELSE b.resp.status = b.answer.status /\ b.resp.body = b.answer.body
  \/ a.pc = "done" /\ b.pc = "idle"

\* C16: every request of the modular build follows the per-request state machine: it reaches
\* Forwarding on an auth-required route only through Authorized, Rejected and
\* Failed produce a normalized error, Completed delivers the backend response,
\* and a terminal state is left only when the request is over.
C16_RequestLifecycle ==
  [][build = "modular" => \A s \in Slots : LifecycleStep(req[s], req'[s])]_vars

\* the key-management routes mounted under /p8n/api-keys
KeyRoutes == {"create", "list", "delete"}

\* C17: on every key-management route requireAuth runs first: while the request is
\* only routed no store call has been made; when getSession resolved no session the
\* response is 401 'Authentication required' and the only store call is that
\* getSession (no createApiKey, listApiKeys or deleteApiKey); a handler has run or may
\* run only with a session attached to the context.
C17_KeyRoutesBehindRequireAuth ==
  \A s \in Slots :
    (req[s].pc # "idle" /\ req[s].route \in KeyRoutes) =>
      /\ req[s].pc = "routed" => req[s].storeCalls = 0
      /\ req[s].resolved = "nomatch" =>
           /\ req[s].pc = "done"
           /\ req[s].resp = JsonError(401, "Authentication required", Absent, Absent)
           /\ req[s].storeCalls = 1
      /\ (req[s].pc = "authed" \/ req[s].storeCalls >= 2) =>
           /\ req[s].resolved = "session"
           /\ req[s].session \in Users
           /\ req[s].session = GetSession(req[s].in.headers)

\* a key-management request without a session has been answered 401 by requireAuth
C17_Witness ==
  \E s \in Slots :
    /\ req[s].route = "list" /\ req[s].pc = "done"
    /\ GetSession(req[s].in.headers) = NoUser
    /\ req[s].resolved = "nomatch"
    /\ req[s].resp.status = 401 /\ req[s].resp.error = "Authentication required"

\* C18: a credential issued by POST /create for a valid session carries the prefix
\* 'oc_' (and so passes the gate's prefix check when presented on the proxy route).
C18_IssuedKeyHasPrefix ==
  \A s \in Slots :
    (req[s].route = "create" /\ req[s].pc = "done" /\ req[s].resp.status = 200) =>
      \A issued \in req[s].resp.data : StartsWith(issued.key, "oc_")

ListedFields == {"id", "name", "createdAt", "expiresAt", "updatedAt"}
Secrets == {Secret(id) : id \in KeyIds}

\* C19: the list route returns metadata only: every listed entry has exactly the
\* fields id, name, createdAt, expiresAt, updatedAt and none of its values is the
\* secret of a credential, whatever the store keeps in the 'key' column.
C19_ListHidesSecrets ==
  \A s \in Slots :
    (req[s].route = "list" /\ req[s].pc = "done" /\ req[s].resp.status = 200) =>
      \A e \in req[s].resp.data :
        /\ DOMAIN e = ListedFields
        /\ \A f \in DOMAIN e : e[f] \notin Secrets

\* the list of a user who owns a key has been returned
C19_Witness ==
  \E s \in Slots :
    /\ req[s].route = "list" /\ req[s].pc = "done" /\ req[s].resp.status = 200
    /\ \E e \in req[s].resp.data : keys[e.id] = GetSession(req[s].in.headers)

\* C20: a delete by an authenticated caller is always answered 200 or 404, also
\* when deleteApiKey throws.
C20_DeleteNeverCrashes ==
  \A s \in Slots :
    (req[s].route = "delete" /\ req[s].pc = "done" /\ req[s].resolved = "session") =>
      req[s].resp.status \in {200, 404}

ConfiguredDomains == {hook.entries[i].d : i \in 1..Len(hook.entries)} \ {""}

\* the domain of an email: the text after its final '@', none without an '@'
AfterFinalAt(email) ==
  IF IndexOf(email, "@") = 0 THEN Absent
  ELSE Split(email, "@")[Len(Split(email, "@"))]

\* C22: the account-creation hook accepts a user with an email exactly when the
\* allowlist is empty (no non-blank entry in ALLOWED_DOMAINS) or the domain of the
\* user's email is one of the configured domains, and rejects every other user.
C22_DomainAllowlist ==
  (hook.pc = "decided" /\ hook.email # "") =>
    (hook.result = "accept" <=>
       (ConfiguredDomains = {} \/ AfterFinalAt(hook.email) \in ConfiguredDomains))

\* the builds that register app.get('/health')
HealthBuilds == {"fetch", "param", "modular"}

\* C23: GET /health is answered 200 with status 'healthy' whatever headers the
\* caller sends, and handling it makes no Identity Store call and no backend call.
C23_HealthIsOpen ==
  \A s \in Slots :
    (build \in HealthBuilds /\ req[s].pc # "idle"
       /\ req[s].in.method = "GET" /\ req[s].in.path = <<"health">>) =>
      /\ req[s].pc \in {"routed", "done"}
      /\ req[s].storeCalls = 0 /\ req[s].backendCalls = 0 /\ req[s].session = NoUser
      /\ req[s].pc = "done" => req[s].resp = JsonOk("healthy", {})

\* a caller without any credential has been answered healthy by the modular build
C23_Witness ==
  \E s \in Slots :
    /\ build = "modular" /\ req[s].pc = "done" /\ req[s].route = "health"
    /\ req[s].in.headers = Hdrs(Absent, Absent, Absent)
    /\ req[s].resp.status = 200 /\ req[s].resp.body = "healthy"

\* the first segments of the route classes the modular build registers
ClassHeads == {"health", "p8n", "opencode"}

\* the path lies under one of the literal-prefix classes
UnderLiteralClass(path) ==
  \/ path = <<"health">>
  \/ IsPrefix(<<"p8n", "auth">>, path)
  \/ IsPrefix(<<"p8n", "api-keys">>, path)

C25_AuthDelegatedForEveryMethod ==
  \A s \in Slots :
    (build = "modular" /\ req[s].pc = "done" /\ IsPrefix(<<"p8n", "auth">>, req[s].in.path)) =>
      /\ req[s].route = "auth" /\ req[s].storeCalls = 1
      /\ req[s].resp \in AuthHandlerAnswers \cup {Uncaught(build, t) : t \in StoreThrown}

\* C26: when the request carries the credential header, validateApiKey decides on
\* the header's credential and not on the route parameter: a header credential
\* without the 'oc_' prefix is rejected before any Identity Store call, and the
\* Principal attached is the owner of the header's credential.
C26_HeaderCredentialPreferred ==
  \A s \in Slots :
    (req[s].route = "gate" /\ req[s].pc \in {"authed", "done"}
       /\ req[s].in.headers["x-api-key"] # Absent) =>
      /\ ~StartsWith(req[s].in.headers["x-api-key"], "oc_") =>
           (req[s].storeCalls = 0 /\ req[s].resolved = "none")
      /\ req[s].resolved = "session" => req[s].session = KeyOwner(req[s].in.headers["x-api-key"])

\* the handler of the request's route has executed: the forwarding handler has
\* dispatched, or a key-management handler has made its call or answered
HandlerRan(s) ==
  \/ req[s].route \in {"proxy"} /\ req[s].backendCalls > 0
  \/ req[s].route \in KeyRoutes /\ req[s].resolved = "session" /\ req[s].pc = "done"

\* C27: every forwarding or key-management handler that has executed found a
\* Principal in the request context, attached by the middleware from the
\* credential of that same request.
C27_HandlerObservesPrincipal ==
  \A s \in Slots :
    HandlerRan(s) =>
      /\ req[s].session \in Users
      /\ req[s].route = "proxy" => req[s].session = KeyOwner(req[s].apiKey)
      /\ req[s].route \in KeyRoutes => req[s].session = GetSession(req[s].in.headers)

\* the X-Forwarded-* headers of the model
ForwardedHeaders == {"x-forwarded-for", "x-forwarded-host"}

\* the inbound request with the caller's X-Forwarded-* headers taken away
WithoutForwarded(in) ==
  [in EXCEPT !.headers = [h \in HeaderNames |-> IF h \in ForwardedHeaders THEN Absent ELSE in.headers[h]]]

\* the outbound request the forwarding handler of a route builds for an inbound request
TargetOf(route, in) ==
  CASE route = "fetchProxy" -> FetchTarget(in)
    [] route = "paramProxy" -> ParamTarget(in)
    [] route = "apikeyProxy" -> ApikeyTarget(in)
    [] OTHER -> ProxyTarget(in)

\* C28: the X-Forwarded-* headers the backend sees do not depend on the
\* X-Forwarded-* headers the caller sent: they equal those of the outbound request
\* built for the same inbound request without the caller's X-Forwarded-* headers.
C28_ForwardedHeadersFromEngine ==
  \A s \in Slots :
    (build \in {"param", "modular"} /\ Forwarded(s)) =>
      \A h \in ForwardedHeaders :
        req[s].out.headers[h] = TargetOf(req[s].route, WithoutForwarded(req[s].in)).headers[h]

\* C29: every request on a gated route is re-validated: it has passed its route's
\* middleware or reached its handler only after an Identity Store resolution made
\* for that request itself.
C29_RevalidatedEveryRequest ==
  \A s \in Slots :
    (build = "modular" /\ AuthRequired(req[s].route)
       /\ (req[s].pc \in {"authed", "forwarding"} \/ Forwarded(s))) =>
      (req[s].storeCalls >= 1 /\ req[s].resolved = "session")

GatewayStep(s) ==
  \/ Health(s) \/ Root(s) \/ P8n(s) \/ NotFound(s)
  \/ AuthPassthrough(s) \/ RequireAuth(s) \/ CreateKey(s) \/ ListKeys(s) \/ DeleteKey(s)
  \/ FetchProxy(s) \/ ParamProxy(s) \/ ApikeyProxy(s) \/ ProxyRoute(s)
  \/ Deliver(s)

\* The event loop runs every handler that can run.  Nothing in the code makes
\* the backend answer or the outbound call reject: neither fetch() nor proxy()
\* is given a timeout or an AbortSignal, so BackendRespond and BackendFail are
\* the backend's and the network's steps and carry no fairness.
SpecLive == Init /\ [][Next]_vars /\ \A s \in Slots : WF_vars(GatewayStep(s))

\* C31: a forwarded request does not stay in Forwarding forever: it ends with the
\* backend's answer relayed or, the backend never answering, with a 502 or 504.
C31_ForwardingTerminates ==
  \A s \in Slots :
    (req[s].pc = "forwarding") ~>
      (req[s].pc = "done" /\ (req[s].answer # NoAnswer \/ req[s].resp.status \in {502, 504}))

\* the handler behind validateApiKey threw while the request was authorized
DownstreamThrew(s) ==
  req[s].route = "gate" /\ req[s].pc = "done" /\ req[s].resolved = "session"
    /\ req[s].thrown.message # Absent

Normalized(s) ==
  req[s].route = "errh" /\ req[s].pc = "done" /\ req[s].thrown.message # Absent

\* C33: the status and the error field of a normalized error are those of the
\* stage that failed: any two values thrown by the same stage are rendered alike.
C33_RenderedByClassAlone ==
  \A s \in Slots :
    Normalized(s) =>
      \A t \in CaughtValues :
        t.stage = req[s].thrown.stage =>
          /\ ErrorHandlerCatch(t).status = req[s].resp.status
          /\ ErrorHandlerCatch(t).error = req[s].resp.error

\* C35: when errorHandler returns, its response is a function of what next() did:
\* the downstream response unchanged when next() resolved; for a caught Error
\* mentioning 'API key' a 401 (also when it mentions 'Database'), for another
\* caught Error mentioning 'Database' a 503, and for every other caught value,
\* those that are no Error included, 500 'Internal server error'.
C35_ErrorHandlerMapping ==
  [][\A s \in Slots :
       (req[s].route = "errh" /\ req[s].pc = "settled" /\ req'[s].pc = "done") =>
         LET t == req[s].thrown
             r == req'[s].resp
         IN IF t.message = Absent THEN r = req[s].resp
            ELSE IF t.isError /\ t.api
              THEN r.status = 401 /\ r.error = "Authentication error" /\ r.kind = "json"
            ELSE IF t.isError /\ t.db
              THEN r.status = 503 /\ r.error = "Service temporarily unavailable" /\ r.kind = "json"
            ELSE r = JsonError(500, "Internal server error", Absent, Absent)]_vars

\* an Error mentioning both 'Database' and 'API key' has been answered 401
C35_Witness ==
  \E s \in Slots :
    /\ Normalized(s) /\ req[s].thrown.isError
    /\ req[s].thrown.message = "Database rejected the API key"
    /\ req[s].resp.status = 401

\* POST /create has issued a key
Created(s) ==
  req[s].route = "create" /\ req[s].pc = "done" /\ req[s].resp.status = 200

\* C36: a key issued by POST /create belongs to the user of the session of the
\* request: the userId and userEmail given to createApiKey are that user's, and
\* the store records that user as the owner, whatever the body carries.
C36_IssuedForSessionUser ==
  \A s \in Slots :
    Created(s) =>
      \A issued \in req[s].resp.data :
        /\ GetSession(req[s].in.headers) \in Users
        /\ issued.userId = GetSession(req[s].in.headers)
        /\ issued.userEmail = UserEmail(GetSession(req[s].in.headers))
        /\ keys[issued.id] = issued.userId

\* alice's session posted a body naming bob as userId, and the key is alice's
C36_Witness ==
  \E s \in Slots :
    /\ Created(s)
    /\ "userId" \in req[s].json.fields /\ req[s].json.userId = "bob"
    /\ GetSession(req[s].in.headers) = "alice"
    /\ \E issued \in req[s].resp.data : keys[issued.id] = "alice"

\* C37: a name and an expiresIn supplied in the body of POST /create are the
\* values given to createApiKey, and the defaults 'API Key' and one year are
\* used only for a field missing from the body.
C37_DefaultsForAbsentOnly ==
  \A s \in Slots :
    Created(s) =>
      \A issued \in req[s].resp.data :
        /\ issued.name = IF "name" \in req[s].json.fields THEN req[s].json.name ELSE "API Key"
        /\ issued.expiresIn = IF "expiresIn" \in req[s].json.fields THEN req[s].json.expiresIn
                              ELSE 31536000

\* C38: with a non-empty allowlist the hook accepts a user only if the user has
\* an email and the text after the final '@' of the email is one of the trimmed
\* allowlist entries.
C38_AcceptedOnFinalSegment ==
  (hook.pc = "decided" /\ ConfiguredDomains # {} /\ hook.result = "accept") =>
    /\ hook.email # ""
    /\ AfterFinalAt(hook.email) \in ConfiguredDomains

====
